---------------------------- MODULE Spec2Model ----------------------------
(***************************************************************************)
(* Model of the heuristic AI-content detection engine of ai_detector.py:   *)
(* AIContentDetector.detect_image / detect_video / detect_audio and their   *)
(* sub-analyzers, of format_result, and of the media handlers of the two    *)
(* bots (bot.py, telegram_bot.py) that call them.                           *)
(*                                                                          *)
(* Numbers.  Every sub-score of the engine is a multiple of 1/30, and a     *)
(* video frame score a multiple of 1/60, so a score is kept as an integer   *)
(* number of sixtieths (0.7 is 42).  A value stored in a Result is a record *)
(* [isFloat, num, den] standing for num/den, so that percentages, scores    *)
(* and counters keep their types.  Arithmetic is exact; the binary          *)
(* representation error of Python floats is not modelled.                   *)
(*                                                                          *)
(* Libraries.  Pixel-level operations (BGR->gray, Laplacian, variance,      *)
(* Pearson correlation, HSV saturation) are computed on small pixel grids   *)
(* as OpenCV/NumPy compute them.  The outputs of cv2.Canny, np.fft.fft2,    *)
(* cv2.calcOpticalFlowFarneback, PIL's EXIF reader and librosa's features   *)
(* are fields of the input medium (what the library yields for that         *)
(* medium), drawn from small sets.                                          *)
(***************************************************************************)
EXTENDS Integers, Sequences, FiniteSets, TLC

VARIABLES
    pc,              \* position inside the running call: "idle", a step name, "returned"
    op,              \* the method being executed ("none" when idle)
    arg,             \* the medium behind the path argument of the call
    locals,          \* local variables of the running call
    results,         \* the `results` dict under construction (NoValue before it exists)
    ret,             \* the value returned by the last call (NoValue while running)
    raised,          \* TRUE when an exception left the last call
    image_features,  \* self.image_features
    audio_features,  \* self.audio_features
    handler,         \* the bot's media handler: its module, position and local variables
    files,           \* the temporary files that exist on disk
    stats            \* self.stats of the bot

vars ==
    <<pc, op, arg, locals, results, ret, raised, image_features, audio_features,
      handler, files, stats>>

NoValue == [none |-> TRUE]

-----------------------------------------------------------------------------
(* Bounds of the model *)

\* largest number of pixels (height * width) of a modelled image
MaxPixels == 5

-----------------------------------------------------------------------------
(* Numbers *)

\* k/10 in sixtieths: the score constants of the code (0.7 -> 42)
Tenths(k) == 6 * k

\* a float score s/60 as stored in a dict
Score(s) == [isFloat |-> TRUE, num |-> s, den |-> 60]

\* a float with two decimals, h/100
Hundredths(h) == [isFloat |-> TRUE, num |-> h, den |-> 100]

\* an int
IntVal(n) == [isFloat |-> FALSE, num |-> n, den |-> 1]

\* Python's round(): the integer nearest to n/d (n >= 0, d > 0), ties to even
RoundHalfEven(n, d) ==
    LET q == n \div d
        r == n % d
    IN  IF 2 * r < d THEN q
        ELSE IF 2 * r > d THEN q + 1
        ELSE IF q % 2 = 0 THEN q ELSE q + 1

\* round(x * 100, 2) for x = n/d, in hundredths
RoundPercent2(n, d) == RoundHalfEven(10000 * n, d)

RECURSIVE SumSeq(_)
SumSeq(s) == IF s = <<>> THEN 0 ELSE Head(s) + SumSeq(Tail(s))

Max(a, b) == IF a >= b THEN a ELSE b

-----------------------------------------------------------------------------
(* Pixel grids: a picture is a sequence of rows of BGR triples *)

Height(p) == Len(p)
Width(p) == Len(p[1])

\* cv2.cvtColor(img, cv2.COLOR_BGR2GRAY) on one 8-bit pixel (fixed point, 14 bits)
GrayOf(c) == (c[1] * 1868 + c[2] * 9617 + c[3] * 4899 + 8192) \div 16384

\* the gray grid of a picture
ToGray(p) == [i \in 1..Height(p) |-> [j \in 1..Width(p) |-> GrayOf(p[i][j])]]

\* BORDER_REFLECT_101 index (1-based) into a dimension of n samples
Reflect(i, n) ==
    IF n = 1 THEN 1
    ELSE IF i < 1 THEN 2 - i
    ELSE IF i > n THEN 2 * n - i
    ELSE i

\* cv2.Laplacian(gray, cv2.CV_64F), aperture 1: the 4-neighbour kernel
Laplacian(g) ==
    LET h == Len(g)
        w == Len(g[1])
        at(i, j) == g[Reflect(i, h)][Reflect(j, w)]
    IN  [i \in 1..h |-> [j \in 1..w |->
            at(i - 1, j) + at(i + 1, j) + at(i, j - 1) + at(i, j + 1) - 4 * g[i][j]]]

\* grid.flatten(): row-major
RECURSIVE Flatten(_)
Flatten(g) == IF g = <<>> THEN <<>> ELSE Head(g) \o Flatten(Tail(g))

SumSq(s) == SumSeq([k \in 1..Len(s) |-> s[k] * s[k]])
SumProd(s, t) == SumSeq([k \in 1..Len(s) |-> s[k] * t[k]])

\* N^2 times the population variance of the samples (np.var, np.std ** 2)
VarTimesN2(s) == Len(s) * SumSq(s) - SumSeq(s) * SumSeq(s)


-----------------------------------------------------------------------------
(* Sub-analyzers of images and frames.  A picture is a record                *)
(* [channels, pix, edges, ratio]: the decoded array (img.shape has 3         *)
(* entries iff channels = 3), the number of pixels cv2.Canny(gray, 50, 150)  *)
(* marks on it, and the centre/edge energy ratio its FFT yields (floor).     *)

\* gray = cv2.cvtColor(img, cv2.COLOR_BGR2GRAY) if len(img.shape) == 3 else img
Gray(img) == IF img.channels = 3 THEN ToGray(img.pix) ELSE img.pix

\* PIL.ExifTags.TAGS restricted to the tags of the model
TAGS ==
    (271 :> "Make") @@ (272 :> "Model") @@ (305 :> "Software") @@
    (306 :> "DateTime") @@ (274 :> "Orientation") @@ (282 :> "XResolution") @@
    (283 :> "YResolution")

\* TAGS.get(tag, tag): a tag TAGS does not know stays a number, which is no field name
TagName(tag) == IF tag \in DOMAIN TAGS THEN TAGS[tag] ELSE "unnamed"

camera_fields == {"Make", "Model", "DateTime", "Software"}

\* exif is what Image.open(path)._getexif() does: [status |-> "raises"],
\* [status |-> "none"] (returns None) or [status |-> "dict", tags |-> the keys]
has_camera_info(exif) == \E tag \in exif.tags : TagName(tag) \in camera_fields

\* (variant) the test on the number of entries is left out
_analyze_metadata_any_size(exif) ==
    IF exif.status = "raises" THEN Tenths(5)
    ELSE IF exif.status = "none" THEN Tenths(8)
    ELSE IF has_camera_info(exif) THEN Tenths(2)
    ELSE Tenths(7)

_analyze_metadata(exif) ==
    IF exif.status = "raises" THEN Tenths(5)
    ELSE IF exif.status = "none" \/ Cardinality(exif.tags) < 3 THEN Tenths(8)
    ELSE IF has_camera_info(exif) THEN Tenths(2)
    ELSE Tenths(7)

\* natural_noise_range = (5, 25); std < 5, std > 25 * 2 compared as variances
_analyze_noise_patterns(img) ==
    LET lap == Flatten(Laplacian(Gray(img)))
        n == Len(lap)
        v == VarTimesN2(lap)
    IN  IF v < 5 * 5 * n * n THEN Tenths(7)
        ELSE IF v > (25 * 2) * (25 * 2) * n * n THEN Tenths(6)
        ELSE Tenths(3)

\* left = gray[:, :w//2]; right = cv2.flip(gray[:, w//2:], 1), both cut to min_width
LeftHalf(g) ==
    LET w == Len(g[1]) IN [i \in 1..Len(g) |-> [j \in 1..(w \div 2) |-> g[i][j]]]

RightHalfFlipped(g) ==
    LET w == Len(g[1])
        min_width == IF w \div 2 <= w - w \div 2 THEN w \div 2 ELSE w - w \div 2
    IN  [i \in 1..Len(g) |-> [j \in 1..min_width |-> g[i][w + 1 - j]]]

\* a/b > c/d for a, c >= 0 and b, d > 0, by Euclid's algorithm (no product is formed)
RECURSIVE FracGreater(_, _, _, _)
FracGreater(a, b, c, d) ==
    IF a \div b # c \div d THEN a \div b > c \div d
    ELSE IF a % b = 0 THEN FALSE
    ELSE IF c % d = 0 THEN TRUE
    ELSE FracGreater(d, c % d, b, a % b)

\* np.corrcoef(x, y)[0, 1] > num/den.  The coefficient is sxy / sqrt(sxx * syy);
\* it is NaN, and every comparison with it False, when x or y is empty or has
\* zero variance.  (den*sxy)^2 > num^2 * sxx * syy is compared as two fractions.
CorrcoefAbove(x, y, num, den) ==
    LET n == Len(x)
        sxy == n * SumProd(x, y) - SumSeq(x) * SumSeq(y)
        sxx == VarTimesN2(x)
        syy == VarTimesN2(y)
    IN  /\ n > 0
        /\ sxx > 0
        /\ syy > 0
        /\ sxy > 0
        /\ FracGreater(den * sxy, num * num * sxx, syy, den * sxy)

_analyze_symmetry(img) ==
    LET g == Gray(img)
        left == Flatten(LeftHalf(g))
        right == Flatten(RightHalfFlipped(g))
    IN  IF CorrcoefAbove(left, right, 85, 100) THEN Tenths(7) ELSE Tenths(3)

_analyze_frequency(img) ==
    IF img.ratio > 100 \/ img.ratio < 10 THEN Tenths(7) ELSE Tenths(3)

\* cv2.cvtColor(img, cv2.COLOR_BGR2HSV)[:, :, 1] on one 8-bit pixel
SaturationOf(c) ==
    LET v == Max(c[1], Max(c[2], c[3]))
        m == IF c[1] <= c[2] /\ c[1] <= c[3] THEN c[1]
             ELSE IF c[2] <= c[3] THEN c[2] ELSE c[3]
    IN  IF v = 0 THEN 0 ELSE (2 * 255 * (v - m) + v) \div (2 * v)

Saturation(img) ==
    Flatten([i \in 1..Height(img.pix) |->
                [j \in 1..Width(img.pix) |-> SaturationOf(img.pix[i][j])]])

\* (variant) the sum of the contributions is returned without the division
_detect_ai_artifacts_sum(img) ==
    LET lap == Flatten(Laplacian(Gray(img)))
        n == Len(lap)
    IN  (IF VarTimesN2(lap) > 1000 * n * n THEN Tenths(8) ELSE 0)
            + (IF 100 * img.edges < 5 * n \/ 10 * img.edges > 3 * n THEN Tenths(6) ELSE 0)
            + (IF img.channels = 3 /\ SumSeq(Saturation(img)) > 180 * n
               THEN Tenths(7) ELSE 0)

\* (variant) the sum is divided by 3 whatever the number of channels
_detect_ai_artifacts_three(img) ==
    LET lap == Flatten(Laplacian(Gray(img)))
        n == Len(lap)
    IN  ((IF VarTimesN2(lap) > 1000 * n * n THEN Tenths(8) ELSE 0)
            + (IF 100 * img.edges < 5 * n \/ 10 * img.edges > 3 * n THEN Tenths(6) ELSE 0)
            + (IF img.channels = 3 /\ SumSeq(Saturation(img)) > 180 * n
               THEN Tenths(7) ELSE 0)) \div 3

_detect_ai_artifacts(img) ==
    LET lap == Flatten(Laplacian(Gray(img)))
        n == Len(lap)
        checker == IF VarTimesN2(lap) > 1000 * n * n THEN Tenths(8) ELSE 0
        \* edge_density < 0.05 or edge_density > 0.3, edge_density = edges / n
        edge == IF 100 * img.edges < 5 * n \/ 10 * img.edges > 3 * n
                THEN Tenths(6) ELSE 0
        colour == IF img.channels = 3 /\ SumSeq(Saturation(img)) > 180 * n
                  THEN Tenths(7) ELSE 0
        count == IF img.channels = 3 THEN 3 ELSE 2
    IN  (checker + edge + colour) \div count


-----------------------------------------------------------------------------
(* Input media *)

\* BGR pixel values of the modelled pictures: two grays and a saturated yellow
Palette == {<<10, 10, 10>>, <<20, 20, 20>>, <<0, 90, 90>>}

Shapes == {s \in (1..MaxPixels) \X (1..MaxPixels) : s[1] * s[2] <= MaxPixels}

PixelGrids == UNION {[1..s[1] -> [1..s[2] -> Palette]] : s \in Shapes}

IsUniform(pix) ==
    \A i \in 1..Height(pix) : \A j \in 1..Width(pix) : pix[i][j] = pix[1][1]

\* cv2.Canny marks no pixel of a picture without any gradient
EdgeCounts(pix) == IF IsUniform(pix) THEN {0} ELSE {0, 1}

FrequencyRatios == {5, 50, 500}

\* what cv2.imread(path) returns for a readable file: always a 3-channel array
Picture(p, e, r) == [channels |-> 3, pix |-> p, edges |-> e, ratio |-> r]

ExifTags == DOMAIN TAGS \cup {59932}

ExifOutcomes ==
    {[status |-> "raises"], [status |-> "none"]}
        \cup {[status |-> "dict", tags |-> t] : t \in SUBSET ExifTags}

\* the EXIF outcomes of the image files given to detect_image
ExifSamples ==
    {[status |-> "raises"], [status |-> "none"],
     [status |-> "dict", tags |-> {271, 272}],
     [status |-> "dict", tags |-> {271, 272, 306}],
     [status |-> "dict", tags |-> {274, 282, 283}]}

\* pictures on which every library outcome is varied: flat gray, flat yellow,
\* a mirrored row, a two-gray row and a high-contrast grid
SamplePixels ==
    LET a == <<10, 10, 10>>
        b == <<20, 20, 20>>
        y == <<0, 90, 90>>
    IN  {<<<<a, a>>, <<a, a>>>>, <<<<y, y>>, <<y, y>>>>, <<<<a, b, b, a>>>>,
         <<<<a, b>>>>, <<<<y, a>>, <<a, y>>>>}

ImageFile(p, e, r, x) == [readable |-> TRUE, img |-> Picture(p, e, r), exif |-> x]

\* the files given to detect_image: an unreadable one, every pixel grid with
\* each edge count it can have, and the sample pictures with every outcome of
\* the EXIF reader and of the FFT
ImageFiles ==
    {[readable |-> FALSE]}
        \cup {ImageFile(p, e, 50, [status |-> "none"]) :
                p \in PixelGrids, e \in {0, 1}}
        \cup {ImageFile(p, e, r, x) :
                p \in SamplePixels, e \in {0, 1}, r \in FrequencyRatios, x \in ExifSamples}

ValidImageFiles ==
    {f \in ImageFiles : f.readable => f.img.edges \in EdgeCounts(f.img.pix)}

-----------------------------------------------------------------------------
(* Exceptions.  Each method body is one try block whose handler returns a    *)
(* dict holding only the error message.                                      *)

EmptyDict == [k \in {} |-> 0]

\* (variant) librosa.load called before the try block is entered
InTry_load_outside(method, step) == ~(method = "detect_audio" /\ step = "load")

\* the steps of each method that lie inside its try block
InTry(method, step) == TRUE

\* (variant) the handler adds the message to the dict built so far and returns that
ErrorResult_partial(method) ==
    IF results = NoValue THEN [error |-> "analysis error"]
    ELSE [error |-> "analysis error"] @@ results

\* return {"error": f"...: {str(e)}"}
ErrorResult(method) ==
    [error |-> CASE method = "detect_image" -> "image analysis error"
                 [] method = "detect_video" -> "video analysis error"
                 [] method = "detect_audio" -> "audio analysis error"]

\* an exception raised at the current step: caught by the method's handler
Throw ==
    /\ pc' = "returned"
    /\ IF InTry(op, pc)
       THEN ret' = ErrorResult(op) /\ raised' = FALSE
       ELSE ret' = NoValue /\ raised' = TRUE
    /\ UNCHANGED <<op, arg, locals, results, image_features, audio_features, handler, files, stats>>

\* return value: the call ends normally
Return(value) ==
    /\ pc' = "returned"
    /\ ret' = value
    /\ raised' = FALSE

CanCall == pc = "idle"

\* result = detect_func(tmp_path): the caller takes the returned value (or the
\* exception) and the frame of the call is gone
TakeResult ==
    /\ pc = "returned"
    /\ pc' = "idle"
    /\ op' = "none"
    /\ arg' = NoValue
    /\ locals' = EmptyDict
    /\ results' = NoValue
    /\ ret' = NoValue
    /\ raised' = FALSE
    /\ UNCHANGED <<image_features, audio_features>>

\* a caller other than the bot's handlers
CallerTakesResult == TakeResult /\ UNCHANGED <<handler, files, stats>>

\* (variant) the call keeps the medium in self.image_features
Call_recording(method, medium, first) ==
    /\ CanCall
    /\ pc' = first
    /\ op' = method
    /\ arg' = medium
    /\ locals' = EmptyDict
    /\ results' = NoValue
    /\ ret' = NoValue
    /\ raised' = FALSE
    /\ image_features' = Append(image_features, medium)
    /\ UNCHANGED audio_features

\* self.detector.<method>(path): a new frame; the detector's fields are not touched
Call(method, medium, first) ==
    /\ CanCall
    /\ pc' = first
    /\ op' = method
    /\ arg' = medium
    /\ locals' = EmptyDict
    /\ results' = NoValue
    /\ ret' = NoValue
    /\ raised' = FALSE
    /\ UNCHANGED <<image_features, audio_features>>

\* a call made by a caller other than the bot's handlers
Enter(method, medium, first) ==
    Call(method, medium, first) /\ UNCHANGED <<handler, files, stats>>

-----------------------------------------------------------------------------
(* detect_image *)

\* (variant) the weights of noise and frequency exchanged
weights_exchanged ==
    [metadata |-> 15, noise |-> 20, symmetry |-> 15, frequency |-> 25, artifacts |-> 25]

weights ==
    [metadata |-> 15, noise |-> 25, symmetry |-> 15, frequency |-> 20, artifacts |-> 25]

\* total_score in units of 1/6000 (scores in sixtieths, weights in hundredths)
total_score(l) ==
    l.metadata_score * weights.metadata + l.noise_score * weights.noise
        + l.symmetry_score * weights.symmetry + l.frequency_score * weights.frequency
        + l.artifact_score * weights.artifacts

\* (variant) the tests written with >= instead of >
image_indicators_inclusive(l) ==
    (IF l.metadata_score >= Tenths(6) THEN <<"suspicious metadata">> ELSE <<>>)
        \o (IF l.noise_score >= Tenths(7) THEN <<"unnatural noise">> ELSE <<>>)
        \o (IF l.symmetry_score >= Tenths(6) THEN <<"suspicious symmetry">> ELSE <<>>)
        \o (IF l.frequency_score >= Tenths(7) THEN <<"frequency anomalies">> ELSE <<>>)
        \o (IF l.artifact_score >= Tenths(7) THEN <<"AI artifacts">> ELSE <<>>)

\* the indicator strings, in the order of their tests
image_indicators(l) ==
    (IF l.metadata_score > Tenths(6) THEN <<"suspicious metadata">> ELSE <<>>)
        \o (IF l.noise_score > Tenths(7) THEN <<"unnatural noise">> ELSE <<>>)
        \o (IF l.symmetry_score > Tenths(6) THEN <<"suspicious symmetry">> ELSE <<>>)
        \o (IF l.frequency_score > Tenths(7) THEN <<"frequency anomalies">> ELSE <<>>)
        \o (IF l.artifact_score > Tenths(7) THEN <<"AI artifacts">> ELSE <<>>)

\* results["details"][key] = value
SetDetail(res, key, value) ==
    [res EXCEPT !.details = (key :> value) @@ res.details]

detect_image_call(f) == Enter("detect_image", f, "imread")

\* img = cv2.imread(image_path); the None test; results = {...}
detect_image_imread ==
    /\ op = "detect_image" /\ pc = "imread"
    /\ IF ~arg.readable
       THEN /\ Return([error |-> "image not loaded"])
            /\ UNCHANGED <<locals, results>>
       ELSE /\ locals' = [img |-> arg.img]
            /\ results' = [type |-> "image", ai_probability |-> Hundredths(0),
                           indicators |-> <<>>, details |-> EmptyDict]
            /\ pc' = "metadata"
            /\ UNCHANGED <<ret, raised>>
    /\ UNCHANGED <<op, arg, image_features, audio_features, handler, files, stats>>

\* one sub-analyzer call and the store of its score into results["details"]
ImageStep(step, next, local, key, value) ==
    /\ op = "detect_image" /\ pc = step
    /\ locals' = (local :> value) @@ locals
    /\ results' = SetDetail(results, key, Score(value))
    /\ pc' = next
    /\ UNCHANGED <<op, arg, ret, raised, image_features, audio_features, handler, files, stats>>

detect_image_metadata ==
    ImageStep("metadata", "noise", "metadata_score", "metadata_analysis",
              _analyze_metadata(arg.exif))

detect_image_noise ==
    ImageStep("noise", "symmetry", "noise_score", "noise_patterns",
              _analyze_noise_patterns(locals.img))

detect_image_symmetry ==
    ImageStep("symmetry", "frequency", "symmetry_score", "symmetry_analysis",
              _analyze_symmetry(locals.img))

detect_image_frequency ==
    ImageStep("frequency", "artifacts", "frequency_score", "frequency_analysis",
              _analyze_frequency(locals.img))

detect_image_artifacts ==
    ImageStep("artifacts", "aggregate", "artifact_score", "ai_artifacts",
              _detect_ai_artifacts(locals.img))

\* the weighted sum, the rounding, the indicators and `return results`
detect_image_aggregate ==
    /\ op = "detect_image" /\ pc = "aggregate"
    /\ LET final == [results EXCEPT
                        !.ai_probability = Hundredths(RoundPercent2(total_score(locals), 6000)),
                        !.indicators = image_indicators(locals)]
       IN  /\ results' = final
           /\ Return(final)
    /\ UNCHANGED <<op, arg, locals, image_features, audio_features, handler, files, stats>>

\* a sub-analyzer (cv2, numpy) raises while an image is analysed
detect_image_raises ==
    /\ op = "detect_image"
    /\ pc \in {"noise", "symmetry", "frequency", "artifacts"}
    /\ Throw

\* the statements of a running detect_image call
detect_image_body ==
    \/ detect_image_imread
    \/ detect_image_metadata
    \/ detect_image_noise
    \/ detect_image_symmetry
    \/ detect_image_frequency
    \/ detect_image_artifacts
    \/ detect_image_aggregate
    \/ detect_image_raises

detect_image ==
    \/ \E f \in ValidImageFiles : detect_image_call(f)
    \/ detect_image_body

-----------------------------------------------------------------------------
(* detect_video.  A video is [opened, total_frames, nframes, frames, flow]:  *)
(* whether cv2.VideoCapture opens it, the CAP_PROP_FRAME_COUNT it reports,   *)
(* the number of frames cap.read() decodes before it fails, the frames       *)
(* (repeated cyclically) and the (mean, std) of the Farneback flow magnitude *)
(* of the successive analysed pairs (repeated cyclically).                   *)

max_frames == 30

\* largest frame count a modelled video reports
MaxTotalFrames == 61

FrameSamples ==
    LET a == <<10, 10, 10>>
        y == <<0, 90, 90>>
    IN  [flat |-> Picture(<<<<a, a>>, <<a, a>>>>, 0, 50),
         busy |-> Picture(<<<<y, a>>, <<a, y>>>>, 1, 50)]

FramePatterns == {<<FrameSamples.flat>>, <<FrameSamples.flat, FrameSamples.busy>>}

FlowSamples ==
    [still |-> [mean |-> 0, std |-> 0], steady |-> [mean |-> 5, std |-> 2],
     abrupt |-> [mean |-> 25, std |-> 5]]

FlowPatterns ==
    {<<FlowSamples.still>>, <<FlowSamples.steady>>,
     <<FlowSamples.steady, FlowSamples.abrupt>>}

VideoFiles ==
    {[opened |-> FALSE]}
        \cup {[opened |-> TRUE, total_frames |-> t, nframes |-> n, frames |-> f, flow |-> w] :
                t \in 0..MaxTotalFrames, n \in 0..MaxTotalFrames,
                f \in FramePatterns, w \in FlowPatterns}

\* the header's frame count is right, or the stream breaks off early
ValidVideoFiles ==
    {v \in VideoFiles :
        v.opened => v.nframes \in {0, v.total_frames \div 2, v.total_frames}}

\* the frame cap.read() yields at position i (from 0)
FrameAt(v, i) == v.frames[(i % Len(v.frames)) + 1]

\* the flow statistics of the k-th analysed pair (from 0)
FlowAt(v, k) == v.flow[(k % Len(v.flow)) + 1]

\* mean_flow > 20 or (mean_flow < 2 and std_flow < 1)
_analyze_temporal_consistency(flow) ==
    IF flow.mean > 20 \/ (flow.mean < 2 /\ flow.std < 1) THEN Tenths(7) ELSE Tenths(3)

\* frame_score = (noise_score + artifact_score) / 2
frame_score(frame) == (_analyze_noise_patterns(frame) + _detect_ai_artifacts(frame)) \div 2

\* np.mean(scores) as sum/len (in sixtieths); `otherwise` when the list is empty
MeanOr(scores, otherwise) ==
    IF scores = <<>> THEN [sum |-> otherwise, len |-> 1]
    ELSE [sum |-> SumSeq(scores), len |-> Len(scores)]

\* (variant) the two weights exchanged
video_probability_exchanged(f, t) ==
    RoundHalfEven(100 * (2 * f.sum * t.len + 3 * t.sum * f.len), 3 * f.len * t.len)

\* round((avg_frame_score * 0.6 + avg_temporal_score * 0.4) * 100, 2), in hundredths
video_probability(f, t) ==
    RoundHalfEven(100 * (3 * f.sum * t.len + 2 * t.sum * f.len), 3 * f.len * t.len)

\* round(avg_temporal_score * 100, 2), in hundredths
temporal_percent(t) == RoundHalfEven(500 * t.sum, 3 * t.len)

\* (variant) the tests written with >= instead of >
video_indicators_inclusive(f, t) ==
    (IF f.sum >= Tenths(7) * f.len THEN <<"AI artifacts in frames">> ELSE <<>>)
        \o (IF t.sum >= Tenths(7) * t.len THEN <<"temporal inconsistency">> ELSE <<>>)

\* if avg_frame_score > 0.7: ...; if avg_temporal_score > 0.7: ...
video_indicators(f, t) ==
    (IF f.sum > Tenths(7) * f.len THEN <<"AI artifacts in frames">> ELSE <<>>)
        \o (IF t.sum > Tenths(7) * t.len THEN <<"temporal inconsistency">> ELSE <<>>)

detect_video_call(v) == Enter("detect_video", v, "open")

\* cap = cv2.VideoCapture(video_path); the isOpened test; results and the locals
detect_video_open ==
    /\ op = "detect_video" /\ pc = "open"
    /\ IF ~arg.opened
       THEN /\ Return([error |-> "video not opened"])
            /\ UNCHANGED <<locals, results>>
       ELSE /\ results' = [type |-> "video", ai_probability |-> Hundredths(0),
                           indicators |-> <<>>,
                           details |-> ("frames_analyzed" :> IntVal(0))
                                        @@ ("temporal_consistency" :> Hundredths(0))]
            /\ locals' = [frame_scores |-> <<>>, frame_count |-> 0,
                          total_frames |-> arg.total_frames,
                          step |-> Max(1, arg.total_frames \div max_frames),
                          prev_frame |-> NoValue, temporal_scores |-> <<>>]
            /\ pc' = "read"
            /\ UNCHANGED <<ret, raised>>
    /\ UNCHANGED <<op, arg, image_features, audio_features, handler, files, stats>>

\* the loop test and ret, frame = cap.read(): every read advances by one frame
LoopRuns == locals.frame_count < max_frames
ReadSucceeds == locals.frame_count < arg.nframes
FrameIsSampled == locals.frame_count % locals.step = 0

\* the loop ends: its test fails, or cap.read() yields no frame (break)
detect_video_loop_exit ==
    /\ op = "detect_video" /\ pc = "read"
    /\ ~(LoopRuns /\ ReadSucceeds)
    /\ pc' = "finish"
    /\ UNCHANGED <<op, arg, locals, results, ret, raised, image_features, audio_features, handler, files, stats>>

\* one iteration of the loop on a decoded frame
detect_video_frame ==
    /\ op = "detect_video" /\ pc = "read"
    /\ LoopRuns /\ ReadSucceeds
    /\ LET frame == FrameAt(arg, locals.frame_count)
       IN  locals' =
             IF FrameIsSampled
             THEN [locals EXCEPT
                    !.frame_scores = Append(@, frame_score(frame)),
                    !.temporal_scores =
                        IF locals.prev_frame # NoValue
                        THEN Append(@, _analyze_temporal_consistency(FlowAt(arg, Len(@))))
                        ELSE @,
                    !.prev_frame = frame,
                    !.frame_count = @ + 1]
             ELSE [locals EXCEPT !.frame_count = @ + 1]
    /\ UNCHANGED <<pc, op, arg, results, ret, raised, image_features, audio_features, handler, files, stats>>

\* a sub-analyzer raises while a sampled frame is analysed
detect_video_raises ==
    /\ op = "detect_video" /\ pc = "read"
    /\ LoopRuns /\ ReadSucceeds /\ FrameIsSampled
    /\ Throw

\* cap.release(), the aggregation (when `aggregate`) and `return results`
VideoFinish(aggregate) ==
    /\ op = "detect_video" /\ pc = "finish"
    /\ LET f == MeanOr(locals.frame_scores, 0)
           t == MeanOr(locals.temporal_scores, Tenths(5))
           final ==
             IF aggregate
             THEN [results EXCEPT
                    !.ai_probability = Hundredths(video_probability(f, t)),
                    !.details = ("frames_analyzed" :> IntVal(Len(locals.frame_scores)))
                                  @@ ("temporal_consistency" :> Hundredths(temporal_percent(t))),
                    !.indicators = video_indicators(f, t)]
             ELSE results
       IN  /\ results' = final
           /\ Return(final)
    /\ UNCHANGED <<op, arg, locals, image_features, audio_features, handler, files, stats>>

\* (variant) the aggregation runs without the `if frame_scores:` test
detect_video_finish_untested == VideoFinish(TRUE)

\* if frame_scores: ... ; return results
detect_video_finish == VideoFinish(locals.frame_scores # <<>>)

\* the statements of a running detect_video call
detect_video_body ==
    \/ detect_video_open
    \/ detect_video_frame
    \/ detect_video_loop_exit
    \/ detect_video_raises
    \/ detect_video_finish

detect_video ==
    \/ \E v \in ValidVideoFiles : detect_video_call(v)
    \/ detect_video_body

-----------------------------------------------------------------------------
(* detect_audio.  An audio file is [loadable, centroid, zcr_std, mfcc_var]:  *)
(* whether librosa.load reads it, the mean spectral centroid (Hz), the       *)
(* standard deviation of the zero-crossing rate (in thousandths) and the     *)
(* mean variance of the 13 MFCC trajectories that librosa yields for it.     *)

AudioFiles ==
    {[loadable |-> FALSE]}
        \cup {[loadable |-> TRUE, centroid |-> c, zcr_std |-> z, mfcc_var |-> m] :
                c \in {500, 1000, 2500, 4000, 5000}, z \in {0, 9, 10, 50},
                m \in {5, 10, 100}}

\* (variant) the limits 1000 and 4000 counted as outside the band
_analyze_audio_spectrum_inclusive(y) ==
    IF y.centroid <= 1000 \/ y.centroid >= 4000 THEN Tenths(7) ELSE Tenths(3)

\* mean_centroid < 1000 or mean_centroid > 4000
_analyze_audio_spectrum(y) ==
    IF y.centroid < 1000 \/ y.centroid > 4000 THEN Tenths(7) ELSE Tenths(3)

\* zcr_std < 0.01
_analyze_audio_patterns(y) == IF y.zcr_std < 10 THEN Tenths(7) ELSE Tenths(3)

_analyze_voice_naturalness(y) == IF y.mfcc_var < 10 THEN Tenths(7) ELSE Tenths(3)

\* total_score in units of 1/6000
audio_total_score(l) ==
    l.spectral_score * 35 + l.pattern_score * 35 + l.naturalness_score * 30

audio_indicators(l) ==
    (IF l.spectral_score > Tenths(7) THEN <<"spectrum anomalies">> ELSE <<>>)
        \o (IF l.pattern_score > Tenths(7) THEN <<"suspicious patterns">> ELSE <<>>)
        \o (IF l.naturalness_score > Tenths(7) THEN <<"unnatural sound">> ELSE <<>>)

detect_audio_call(f) == Enter("detect_audio", f, "load")

\* y, sr = librosa.load(audio_path, sr=None), which raises on a file it cannot
\* read; results = {...}
detect_audio_load ==
    /\ op = "detect_audio" /\ pc = "load"
    /\ IF ~arg.loadable
       THEN Throw
       ELSE /\ locals' = [y |-> arg]
            /\ results' = [type |-> "audio", ai_probability |-> Hundredths(0),
                           indicators |-> <<>>, details |-> EmptyDict]
            /\ pc' = "spectral"
            /\ UNCHANGED <<op, arg, ret, raised, image_features, audio_features, handler, files, stats>>

AudioStep(step, next, local, key, value) ==
    /\ op = "detect_audio" /\ pc = step
    /\ locals' = (local :> value) @@ locals
    /\ results' = SetDetail(results, key, Score(value))
    /\ pc' = next
    /\ UNCHANGED <<op, arg, ret, raised, image_features, audio_features, handler, files, stats>>

detect_audio_spectral ==
    AudioStep("spectral", "pattern", "spectral_score", "spectral_analysis",
              _analyze_audio_spectrum(locals.y))

detect_audio_pattern ==
    AudioStep("pattern", "naturalness", "pattern_score", "pattern_analysis",
              _analyze_audio_patterns(locals.y))

detect_audio_naturalness ==
    AudioStep("naturalness", "aggregate", "naturalness_score", "naturalness",
              _analyze_voice_naturalness(locals.y))

detect_audio_aggregate ==
    /\ op = "detect_audio" /\ pc = "aggregate"
    /\ LET final == [results EXCEPT
                        !.ai_probability =
                            Hundredths(RoundPercent2(audio_total_score(locals), 6000)),
                        !.indicators = audio_indicators(locals)]
       IN  /\ results' = final
           /\ Return(final)
    /\ UNCHANGED <<op, arg, locals, image_features, audio_features, handler, files, stats>>

\* a sub-analyzer (librosa, numpy) raises while the samples are analysed
detect_audio_raises ==
    /\ op = "detect_audio"
    /\ pc \in {"spectral", "pattern", "naturalness"}
    /\ Throw

\* the statements of a running detect_audio call
detect_audio_body ==
    \/ detect_audio_load
    \/ detect_audio_spectral
    \/ detect_audio_pattern
    \/ detect_audio_naturalness
    \/ detect_audio_aggregate
    \/ detect_audio_raises

detect_audio ==
    \/ \E f \in AudioFiles : detect_audio_call(f)
    \/ detect_audio_body

-----------------------------------------------------------------------------

Init ==
    /\ pc = "idle"
    /\ op = "none"
    /\ arg = NoValue
    /\ locals = EmptyDict
    /\ results = NoValue
    /\ ret = NoValue
    /\ raised = FALSE
    /\ image_features = <<>>
    /\ audio_features = <<>>
    /\ handler = NoValue
    /\ files = {}
    /\ stats = NoValue

Next ==
    \/ detect_image
    \/ detect_video
    \/ detect_audio
    \/ CallerTakesResult

\* any sequence of calls of the three methods on one detector
Spec == Init /\ [][Next]_vars

\* calls of detect_image only
SpecImage == Init /\ [][detect_image \/ CallerTakesResult]_vars

\* calls of detect_video only
SpecVideo == Init /\ [][detect_video \/ CallerTakesResult]_vars

\* calls of detect_audio only
SpecAudio == Init /\ [][detect_audio \/ CallerTakesResult]_vars

-----------------------------------------------------------------------------
(* _analyze_metadata on its own: one call on every outcome of the EXIF reader *)

InitMetadata ==
    /\ pc = "metadata"
    /\ op = "_analyze_metadata"
    /\ arg \in ExifOutcomes
    /\ locals = EmptyDict
    /\ results = NoValue
    /\ ret = NoValue
    /\ raised = FALSE
    /\ image_features = <<>>
    /\ audio_features = <<>>
    /\ handler = NoValue
    /\ files = {}
    /\ stats = NoValue

analyze_metadata_call ==
    /\ op = "_analyze_metadata" /\ pc = "metadata"
    /\ Return(Score(_analyze_metadata(arg)))
    /\ UNCHANGED <<op, arg, locals, results, image_features, audio_features, handler, files, stats>>

SpecMetadata == InitMetadata /\ [][analyze_metadata_call]_vars

-----------------------------------------------------------------------------
(* format_result.  The text it returns is the sequence of its lines; a line  *)
(* is a record whose `line` field names the kind of line and whose other     *)
(* fields hold what the f-string substitutes.  The Russian labels are given  *)
(* in English.                                                               *)

\* the keys of details in the order in which the engine inserts them (a dict
\* iterates in insertion order)
DetailKeys ==
    <<"metadata_analysis", "noise_patterns", "symmetry_analysis", "frequency_analysis",
      "ai_artifacts", "frames_analyzed", "temporal_consistency", "spectral_analysis",
      "pattern_analysis", "naturalness">>

\* {...}.get(key, key)
key_ru(key) ==
    CASE key = "metadata_analysis" -> "Metadata"
      [] key = "noise_patterns" -> "Noise patterns"
      [] key = "symmetry_analysis" -> "Symmetry"
      [] key = "frequency_analysis" -> "Frequency analysis"
      [] key = "ai_artifacts" -> "AI artifacts"
      [] key = "frames_analyzed" -> "Frames analysed"
      [] key = "temporal_consistency" -> "Temporal consistency"
      [] key = "spectral_analysis" -> "Spectral analysis"
      [] key = "pattern_analysis" -> "Pattern analysis"
      [] key = "naturalness" -> "Naturalness"
      [] OTHER -> key

\* (variant) the tier tests written with > instead of >=
verdict_tier_exclusive(ai_prob) ==
    IF ai_prob.num > 70 * ai_prob.den
    THEN [line |-> "verdict", emoji |-> "red", verdict |-> "likely AI"]
    ELSE IF ai_prob.num > 40 * ai_prob.den
    THEN [line |-> "verdict", emoji |-> "yellow", verdict |-> "possibly AI"]
    ELSE [line |-> "verdict", emoji |-> "green", verdict |-> "likely human"]

\* if ai_prob >= 70: ... elif ai_prob >= 40: ... else: ...
verdict_tier(ai_prob) ==
    IF ai_prob.num >= 70 * ai_prob.den
    THEN [line |-> "verdict", emoji |-> "red", verdict |-> "likely AI"]
    ELSE IF ai_prob.num >= 40 * ai_prob.den
    THEN [line |-> "verdict", emoji |-> "yellow", verdict |-> "possibly AI"]
    ELSE [line |-> "verdict", emoji |-> "green", verdict |-> "likely human"]

\* one line of the detail table: a float is shown as round(value * 100, 1) percent
\* (kept in tenths of a percent), anything else as it is
detail_line(key, value) ==
    IF value.isFloat
    THEN [line |-> "detail", label |-> key_ru(key), shown |-> "percent",
          number |-> RoundHalfEven(1000 * value.num, value.den)]
    ELSE [line |-> "detail", label |-> key_ru(key), shown |-> "plain",
          number |-> value.num]

\* the lines of the detail table, header first
detail_table(details) ==
    LET present(key) == key \in DOMAIN details
        keys == SelectSeq(DetailKeys, present)
    IN  <<[line |-> "details header"]>>
            \o [k \in 1..Len(keys) |-> detail_line(keys[k], details[keys[k]])]

\* the list of indicators with its header, or nothing when the list is empty
indicator_list(indicators) ==
    IF indicators = <<>> THEN <<>>
    ELSE <<[line |-> "indicators header"]>>
            \o [k \in 1..Len(indicators) |-> [line |-> "indicator", text |-> indicators[k]]]

\* the text for a Result without `error`
format_verdict(result) ==
    <<verdict_tier(result.ai_probability),
      [line |-> "probability", value |-> result.ai_probability]>>
        \o indicator_list(result.indicators)
        \o detail_table(result.details)

\* (variant) the error message is put in front of whatever else the dict holds
format_result_error_prefixed(result) ==
    IF "error" \in DOMAIN result
    THEN <<[line |-> "error", text |-> result.error]>>
            \o (IF "ai_probability" \in DOMAIN result THEN format_verdict(result) ELSE <<>>)
    ELSE format_verdict(result)

format_result(result) ==
    IF "error" \in DOMAIN result
    THEN <<[line |-> "error", text |-> result.error]>>
    ELSE format_verdict(result)

\* the interpretation table of the /help text: whole percents and their verdict
help_message ==
    <<[emoji |-> "red", from |-> 70, to |-> 100, verdict |-> "likely AI"],
      [emoji |-> "yellow", from |-> 40, to |-> 69, verdict |-> "possibly AI"],
      [emoji |-> "green", from |-> 0, to |-> 39, verdict |-> "likely human"]>>

\* format_result on its own: one call on each of a set of Results
FormatProbabilities == {0, 3900, 3999, 4000, 4001, 6900, 6999, 7000, 7001, 10000}

FormatIndicators ==
    {<<>>, <<"suspicious metadata">>, <<"suspicious metadata", "suspicious symmetry">>}

FormatDetails ==
    [image |-> ("metadata_analysis" :> Score(Tenths(8))) @@ ("noise_patterns" :> Score(Tenths(3)))
                 @@ ("symmetry_analysis" :> Score(Tenths(7)))
                 @@ ("frequency_analysis" :> Score(Tenths(3)))
                 @@ ("ai_artifacts" :> Score(28)),
     video |-> ("frames_analyzed" :> IntVal(2)) @@ ("temporal_consistency" :> Hundredths(7000)),
     audio |-> ("spectral_analysis" :> Score(Tenths(7))) @@ ("pattern_analysis" :> Score(Tenths(3)))
                 @@ ("naturalness" :> Score(Tenths(3)))]

FormatResults ==
    {[type |-> t, ai_probability |-> Hundredths(p), indicators |-> i,
      details |-> FormatDetails[t]] :
        t \in {"image", "video", "audio"}, p \in FormatProbabilities, i \in FormatIndicators}

FormatErrors ==
    {ErrorResult(m) : m \in {"detect_image", "detect_video", "detect_audio"}}
        \cup {[error |-> "image not loaded"], [error |-> "video not opened"]}

\* the Results the engine returns, and dicts that hold `error` next to other fields
FormatInputs ==
    FormatResults \cup FormatErrors
        \cup {[error |-> "image analysis error"] @@ r :
                r \in {x \in FormatResults : x.indicators = <<>>}}

InitFormat ==
    /\ pc = "format"
    /\ op = "format_result"
    /\ arg \in FormatInputs
    /\ locals = EmptyDict
    /\ results = NoValue
    /\ ret = NoValue
    /\ raised = FALSE
    /\ image_features = <<>>
    /\ audio_features = <<>>
    /\ handler = NoValue
    /\ files = {}
    /\ stats = NoValue

format_result_call ==
    /\ op = "format_result" /\ pc = "format"
    /\ Return(format_result(arg))
    /\ UNCHANGED <<op, arg, locals, results, image_features, audio_features, handler, files, stats>>

SpecFormat == InitFormat /\ [][format_result_call]_vars

-----------------------------------------------------------------------------
(* The bots.  bot.py and telegram_bot.py each define an AIDetectorBot with    *)
(* one AIContentDetector, whose media handlers download the file of a        *)
(* message to a temporary file, call the detector on it, format the Result   *)
(* and reply.  The handlers of a bot run one at a time.  handler is          *)
(* [module, name, pc, update, tmp, tmp_path, result, text, exc]: the bot's   *)
(* module, the running handler and its position, the message, the name of    *)
(* the file NamedTemporaryFile created, the local tmp_path, the Result, the  *)
(* formatted text, and whether an exception left the handler.  The document  *)
(* handlers follow the same statements after a test of the file extension.   *)

\* most temporary files on disk at which a handler is still started
MaxTempFiles == 2

\* most messages a bot counts in stats['total'] before the model stops it
MaxHandled == 2

\* tmp_path = None
NoPath == 0

Modules == {"bot.py", "telegram_bot.py"}

detector_vars == <<pc, op, arg, locals, results, ret, raised, image_features, audio_features>>

\* no handler is running
NoHandler(module) ==
    [module |-> module, name |-> "none", pc |-> "idle", update |-> NoValue,
     tmp |-> NoPath, tmp_path |-> NoPath, result |-> NoValue, text |-> <<>>, exc |-> FALSE]

\* the media of the messages sent to the bot
BotImages ==
    LET a == <<10, 10, 10>>
        b == <<20, 20, 20>>
    IN  {[readable |-> FALSE],
         ImageFile(<<<<a, a>>, <<a, a>>>>, 0, 50, [status |-> "none"]),
         ImageFile(<<<<a, b, b, a>>>>, 1, 500, [status |-> "dict", tags |-> {271, 272, 306}])}

BotVideos ==
    {[opened |-> FALSE],
     [opened |-> TRUE, total_frames |-> 2, nframes |-> 0,
      frames |-> <<FrameSamples.flat>>, flow |-> <<FlowSamples.still>>],
     [opened |-> TRUE, total_frames |-> 3, nframes |-> 3,
      frames |-> <<FrameSamples.flat, FrameSamples.busy>>,
      flow |-> <<FlowSamples.steady, FlowSamples.abrupt>>]}

BotAudio ==
    {[loadable |-> FALSE],
     [loadable |-> TRUE, centroid |-> 500, zcr_std |-> 0, mfcc_var |-> 5],
     [loadable |-> TRUE, centroid |-> 2500, zcr_std |-> 50, mfcc_var |-> 100]}

\* a message: the handler its filter selects, its file, and whether the file is
\* larger than 20 MB
Updates ==
    {[name |-> "handle_photo", medium |-> f, too_large |-> FALSE] : f \in BotImages}
        \cup {[name |-> "handle_video", medium |-> v, too_large |-> t] :
                v \in BotVideos, t \in BOOLEAN}
        \cup {[name |-> "handle_audio", medium |-> f, too_large |-> FALSE] : f \in BotAudio}

\* the detector method a handler calls and the stats key it counts
detect_func(name) ==
    CASE name = "handle_photo" ->
            [method |-> "detect_image", first |-> "imread", media_type |-> "images"]
      [] name = "handle_video" ->
            [method |-> "detect_video", first |-> "open", media_type |-> "videos"]
      [] name = "handle_audio" ->
            [method |-> "detect_audio", first |-> "load", media_type |-> "audio"]

\* the first statement of a handler
FirstStep(module, name) ==
    IF module = "bot.py"
    THEN IF name = "handle_video" THEN "size" ELSE "get_file"
    ELSE "announce"

\* the statement that follows `step` when it completes
NextStep(module, name, step) ==
    IF module = "bot.py"
    THEN CASE step = "size" -> "get_file"
           [] step = "get_file" -> "announce"
           [] step = "announce" -> "mktemp"
           [] step = "mktemp" -> "download"
           [] step = "download" -> "detect"
           [] step = "detect" -> "detecting"
           [] step = "detecting" -> "format"
           [] step = "format" -> "reply"
           [] step = "reply" -> "stats"
           [] step = "stats" -> "finally"
           [] step = "except" -> "finally"
           [] step = "finally" -> "done"
           [] step = "refuse" -> "done"
    ELSE CASE step = "announce" -> "get_file"
           [] step = "get_file" -> IF name = "handle_video" THEN "size" ELSE "mktemp"
           [] step = "size" -> "mktemp"
           [] step = "mktemp" -> "download"
           [] step = "download" -> "detect"
           [] step = "detect" -> "detecting"
           [] step = "detecting" -> "format"
           [] step = "format" -> "reply"
           [] step = "reply" -> "unlink"
           [] step = "unlink" -> "stats"
           [] step = "stats" -> "done"
           [] step = "except" -> "done"
           [] step = "refuse" -> "done"

\* where control goes when `step` raises: bot.py calls _safe_process, whose try
\* has an except and a finally block, after get_file; telegram_bot.py has a
\* try with an except block after the first reply
OnException(module, step) ==
    IF module = "bot.py"
    THEN IF step \in {"size", "get_file", "refuse"} THEN "done"
         ELSE IF step = "except" THEN "finally"
         ELSE "except"
    ELSE IF step \in {"announce", "except"} THEN "done"
         ELSE "except"

\* a handler is started on a message
handler_start(u) ==
    /\ handler.pc = "idle"
    /\ CanCall
    /\ stats.total < MaxHandled
    /\ Cardinality(files) < MaxTempFiles
    /\ handler' = [NoHandler(handler.module) EXCEPT
                     !.name = u.name, !.update = u,
                     !.pc = FirstStep(handler.module, u.name)]
    /\ UNCHANGED <<detector_vars, files, stats>>

\* the awaited calls of the Telegram API: each completes or raises
AwaitSteps == {"announce", "get_file", "download", "reply", "refuse", "except"}

\* an exception raised at `step` leaves the handler
Escapes(module, step) == OnException(module, step) # "except"

\* await reply_text(...), get_file(), download_to_drive(...); in telegram_bot.py
\* tmp_path = tmp.name follows the download
handler_await ==
    /\ handler.pc \in AwaitSteps
    /\ \E completes \in BOOLEAN :
         handler' =
           IF completes
           THEN [handler EXCEPT
                   !.pc = NextStep(handler.module, handler.name, handler.pc),
                   !.tmp_path = IF handler.module = "telegram_bot.py"
                                   /\ handler.pc = "download"
                                THEN handler.tmp ELSE @]
           ELSE [handler EXCEPT
                   !.pc = OnException(handler.module, handler.pc),
                   !.exc = Escapes(handler.module, handler.pc)]
    /\ UNCHANGED <<detector_vars, files, stats>>

\* if file_size > 20 * 1024 * 1024: reply and return
handler_size ==
    /\ handler.pc = "size"
    /\ handler' = [handler EXCEPT
                     !.pc = IF handler.update.too_large THEN "refuse"
                            ELSE NextStep(handler.module, handler.name, "size")]
    /\ UNCHANGED <<detector_vars, files, stats>>

\* the name of a file that does not exist yet
FreshName == CHOOSE n \in 1..MaxTempFiles : n \notin files

\* with tempfile.NamedTemporaryFile(suffix=..., delete=False) as tmp: the file
\* is created and stays when the with block is left; bot.py sets tmp_path here
handler_mktemp ==
    /\ handler.pc = "mktemp"
    /\ files' = files \cup {FreshName}
    /\ handler' = [handler EXCEPT
                     !.tmp = FreshName,
                     !.tmp_path = IF handler.module = "bot.py" THEN FreshName ELSE @,
                     !.pc = NextStep(handler.module, handler.name, "mktemp")]
    /\ UNCHANGED <<detector_vars, stats>>

\* result = self.detector.detect_...(tmp_path): the call
handler_detect ==
    /\ handler.pc = "detect"
    /\ LET f == detect_func(handler.name)
       IN  Call(f.method, handler.update.medium, f.first)
    /\ handler' = [handler EXCEPT !.pc = "detecting"]
    /\ UNCHANGED <<files, stats>>

\* result = self.detector.detect_...(tmp_path): the returned value is stored
handler_takes_result ==
    /\ handler.pc = "detecting"
    /\ TakeResult
    /\ handler' =
         IF raised
         THEN [handler EXCEPT !.pc = OnException(handler.module, "detecting")]
         ELSE [handler EXCEPT !.result = ret, !.pc = "format"]
    /\ UNCHANGED <<files, stats>>

\* text = format_result(result)
handler_format ==
    /\ handler.pc = "format"
    /\ handler' = [handler EXCEPT
                     !.text = format_result(handler.result),
                     !.pc = NextStep(handler.module, handler.name, "format")]
    /\ UNCHANGED <<detector_vars, files, stats>>

\* os.unlink(tmp_path): after the reply in telegram_bot.py; in the finally
\* block, if tmp_path and os.path.exists(tmp_path), in bot.py
handler_unlink ==
    /\ handler.pc \in {"unlink", "finally"}
    /\ files' = IF handler.tmp_path # NoPath THEN files \ {handler.tmp_path} ELSE files
    /\ handler' = [handler EXCEPT !.pc = NextStep(handler.module, handler.name, handler.pc)]
    /\ UNCHANGED <<detector_vars, stats>>

\* self.stats[media_type] += 1; self.stats['total'] += 1
handler_stats ==
    /\ handler.pc = "stats"
    /\ stats' = [stats EXCEPT ![detect_func(handler.name).media_type] = @ + 1,
                              !.total = @ + 1]
    /\ handler' = [handler EXCEPT !.pc = NextStep(handler.module, handler.name, "stats")]
    /\ UNCHANGED <<detector_vars, files>>

\* the handler returns (or its exception reaches the Application)
handler_return ==
    /\ handler.pc = "done"
    /\ handler' = NoHandler(handler.module)
    /\ UNCHANGED <<detector_vars, files, stats>>

\* AIDetectorBot.__init__ of either module
InitBot ==
    /\ pc = "idle"
    /\ op = "none"
    /\ arg = NoValue
    /\ locals = EmptyDict
    /\ results = NoValue
    /\ ret = NoValue
    /\ raised = FALSE
    /\ image_features = <<>>
    /\ audio_features = <<>>
    /\ handler \in {NoHandler(module) : module \in Modules}
    /\ files = {}
    /\ stats = [images |-> 0, videos |-> 0, audio |-> 0, total |-> 0]

NextBot ==
    \/ \E u \in Updates : handler_start(u)
    \/ handler_await
    \/ handler_size
    \/ handler_mktemp
    \/ handler_detect
    \/ handler_takes_result
    \/ handler_format
    \/ handler_unlink
    \/ handler_stats
    \/ handler_return
    \/ detect_image_body
    \/ detect_video_body
    \/ detect_audio_body

\* a bot handling messages one after another with its one detector
SpecBot == InitBot /\ [][NextBot]_vars

-----------------------------------------------------------------------------
(* _detect_ai_artifacts on its own: one call on every small colour picture    *)
(* and on every small single-channel (grayscale) array                       *)

\* the values of the modelled grayscale arrays
GrayPalette == {10, 20, 80}

GrayGrids == UNION {[1..s[1] -> [1..s[2] -> GrayPalette]] : s \in Shapes}

\* img with len(img.shape) == 2
GrayPicture(p, e, r) == [channels |-> 1, pix |-> p, edges |-> e, ratio |-> r]

ArtifactInputs ==
    {Picture(p, e, 50) : p \in PixelGrids, e \in {0, 1}}
        \cup {GrayPicture(p, e, 50) : p \in GrayGrids, e \in {0, 1}}

ValidArtifactInputs == {img \in ArtifactInputs : img.edges \in EdgeCounts(img.pix)}

InitArtifacts ==
    /\ pc = "artifacts"
    /\ op = "_detect_ai_artifacts"
    /\ arg \in ValidArtifactInputs
    /\ locals = EmptyDict
    /\ results = NoValue
    /\ ret = NoValue
    /\ raised = FALSE
    /\ image_features = <<>>
    /\ audio_features = <<>>
    /\ handler = NoValue
    /\ files = {}
    /\ stats = NoValue

detect_ai_artifacts_call ==
    /\ op = "_detect_ai_artifacts" /\ pc = "artifacts"
    /\ Return(Score(_detect_ai_artifacts(arg)))
    /\ UNCHANGED <<op, arg, locals, results, image_features, audio_features, handler, files, stats>>

SpecArtifacts == InitArtifacts /\ [][detect_ai_artifacts_call]_vars

-----------------------------------------------------------------------------
(* Properties *)

Returned(method) == pc = "returned" /\ op = method
IsError(value) == "error" \in DOMAIN value
Succeeded(method) == Returned(method) /\ ret # NoValue /\ ~IsError(ret)
Methods == {"detect_image", "detect_video", "detect_audio"}

\* the call ended although the medium could not be loaded (no results dict was built)
MediaNotLoaded == results = NoValue
\* the call ended without reaching `return results`
Interrupted == results # NoValue /\ ret # results

\* C1: no exception ever leaves detect_image, detect_video or detect_audio;
\* every call that ends returns a value, and a call that ends because the medium
\* could not be loaded or a sub-analyzer raised returns a value carrying `error`.
C1_NeverRaises ==
    /\ ~raised
    /\ \A m \in Methods :
         Returned(m) =>
            /\ ret # NoValue
            /\ (MediaNotLoaded \/ Interrupted) => IsError(ret)

\* a frame analyzer raised after some frames of a video had been scored
C1_Witness ==
    /\ Returned("detect_video")
    /\ Interrupted
    /\ Len(locals.frame_scores) >= 2
    /\ IsError(ret)

\* C2: a returned value with an `error` field has no other field, also when
\* sub-scores had already been stored in the results dict before the failure.
C2_ErrorOnly ==
    \A m \in Methods : (Returned(m) /\ IsError(ret)) => DOMAIN ret = {"error"}

\* an image analysis failed after three sub-scores were stored in details
C2_Witness ==
    /\ Returned("detect_image")
    /\ IsError(ret)
    /\ results # NoValue
    /\ Cardinality(DOMAIN results.details) = 3

InUnit(s) == 0 <= s /\ s <= Tenths(10)
ScoreLocals ==
    {"metadata_score", "noise_score", "symmetry_score", "frequency_score",
     "artifact_score", "spectral_score", "pattern_score", "naturalness_score"}

\* C3: every sub-score a sub-analyzer returns lies in [0,1] (the scores held
\* by a running call, and the noise and artifact scores of the video frame about
\* to be read), and the ai_probability of every non-error Result lies in [0,100].
C3_Ranges ==
    /\ \A k \in DOMAIN locals \cap ScoreLocals : InUnit(locals[k])
    /\ op = "detect_video" /\ results # NoValue =>
         /\ \A k \in 1..Len(locals.frame_scores) : InUnit(locals.frame_scores[k])
         /\ \A k \in 1..Len(locals.temporal_scores) : InUnit(locals.temporal_scores[k])
         /\ pc = "read" /\ ReadSucceeds =>
              /\ InUnit(_analyze_noise_patterns(FrameAt(arg, locals.frame_count)))
              /\ InUnit(_detect_ai_artifacts(FrameAt(arg, locals.frame_count)))
    /\ \A m \in Methods :
         Succeeded(m) =>
            /\ ret.ai_probability.den = 100
            /\ 0 <= ret.ai_probability.num
            /\ ret.ai_probability.num <= 100 * 100

\* an image on which all three artifact checks trigger: the largest artifact score
C3_Witness ==
    /\ Succeeded("detect_image")
    /\ locals.artifact_score = Tenths(7)
    /\ locals.metadata_score = Tenths(8)

\* C4: detect_image returns ai_probability = 100 * (0.15*metadata + 0.25*noise
\* + 0.15*symmetry + 0.20*frequency + 0.25*artifacts) rounded to 2 decimals, over
\* the five sub-scores stored in details, which are the ones the call computed.
C4_ImageAggregation ==
    Succeeded("detect_image") =>
        LET d == ret.details
            sum == 15 * d["metadata_analysis"].num + 25 * d["noise_patterns"].num
                     + 15 * d["symmetry_analysis"].num + 20 * d["frequency_analysis"].num
                     + 25 * d["ai_artifacts"].num
        IN  /\ DOMAIN d = {"metadata_analysis", "noise_patterns", "symmetry_analysis",
                           "frequency_analysis", "ai_artifacts"}
            /\ d["metadata_analysis"] = Score(_analyze_metadata(arg.exif))
            /\ d["noise_patterns"] = Score(_analyze_noise_patterns(arg.img))
            /\ d["symmetry_analysis"] = Score(_analyze_symmetry(arg.img))
            /\ d["frequency_analysis"] = Score(_analyze_frequency(arg.img))
            /\ d["ai_artifacts"] = Score(_detect_ai_artifacts(arg.img))
            \* sum is in 1/6000; 100 * sum / 6000 in hundredths is 5 * sum / 3
            /\ ret.ai_probability = Hundredths(RoundHalfEven(5 * sum, 3))

\* camera metadata, noisy, asymmetric, anomalous spectrum: 0.2, 0.6, 0.3, 0.7
C4_Witness ==
    /\ Succeeded("detect_image")
    /\ locals.metadata_score = Tenths(2)
    /\ locals.noise_score = Tenths(6)
    /\ locals.symmetry_score = Tenths(3)
    /\ locals.frequency_score = Tenths(7)
    /\ ret.ai_probability.num > 0

\* the value of a details entry of the returned Result
Detail(key) == ret.details[key]

\* C5 as stated: a video source with zero frames, or one that cannot be decoded
\* (the capture does not open, or opens and decodes nothing), yields a non-error
\* Result with frames_analyzed = 0, ai_probability = 0 and no indicators.
C5_AsStated ==
    (Returned("detect_video") /\ (~arg.opened \/ arg.nframes = 0)) =>
        /\ ~IsError(ret)
        /\ Detail("frames_analyzed") = IntVal(0)
        /\ ret.ai_probability = Hundredths(0)
        /\ ret.indicators = <<>>

\* C5 (amended): a video source that opens but from which no frame decodes
\* yields a non-error Result with frames_analyzed = 0, ai_probability = 0 and no
\* indicators; a source that does not open yields an error Result.
C5_ZeroFrames ==
    Returned("detect_video") =>
        IF arg.opened
        THEN arg.nframes = 0 =>
                /\ ~IsError(ret)
                /\ ret.type = "video"
                /\ Detail("frames_analyzed") = IntVal(0)
                /\ ret.ai_probability = Hundredths(0)
                /\ ret.indicators = <<>>
        ELSE ret = [error |-> "video not opened"]

\* the header announces 60 frames and none decodes
C5_Witness ==
    /\ Succeeded("detect_video")
    /\ arg.opened
    /\ arg.total_frames = 60
    /\ arg.nframes = 0

\* C6 as stated: for a fully decodable video of total_frames frames, the
\* analysed frames are those at 0, step, 2*step, ... up to the end of the stream,
\* at most 30 of them (step = max(1, total_frames // 30)); frames_analyzed counts them.
C6_EvenSampling ==
    (Succeeded("detect_video") /\ arg.nframes = arg.total_frames) =>
        LET step == IF arg.total_frames \div 30 >= 1 THEN arg.total_frames \div 30 ELSE 1
            claimed == {k \in 0..29 : k * step < arg.total_frames}
        IN  /\ Detail("frames_analyzed").num <= 30
            /\ Detail("frames_analyzed").num = Cardinality(claimed)

\* C7: for a video with at least one analysed frame, ai_probability =
\* round(100 * (0.6 * mean(frame_scores) + 0.4 * mean(temporal_scores)), 2), each
\* frame score the average of the frame's noise and artifact scores, each
\* temporal score that of two successive analysed frames, and 0.5 standing for
\* the temporal mean when one frame was analysed.
C7_VideoAggregation ==
    (Succeeded("detect_video") /\ locals.frame_scores # <<>>) =>
        LET fs == locals.frame_scores
            ts == locals.temporal_scores
            n == Len(fs)
            m == IF n = 1 THEN 1 ELSE n - 1
            sumT == IF n = 1 THEN 30 ELSE SumSeq(ts)
            frame(k) == FrameAt(arg, (k - 1) * locals.step)
        IN  /\ \A k \in 1..n :
                 2 * fs[k] = _analyze_noise_patterns(frame(k)) + _detect_ai_artifacts(frame(k))
            /\ Len(ts) = n - 1
            /\ \A k \in 1..(n - 1) : ts[k] = _analyze_temporal_consistency(FlowAt(arg, k - 1))
            \* 10000 * (0.6 * sumF / (60 n) + 0.4 * sumT / (60 m)), in hundredths
            /\ ret.ai_probability =
                 Hundredths(RoundHalfEven(300 * SumSeq(fs) * m + 200 * sumT * n, 3 * n * m))

\* exactly one frame analysed: 0.5 stands for the temporal mean
C7_Witness ==
    /\ Succeeded("detect_video")
    /\ Len(locals.frame_scores) = 1
    /\ locals.temporal_scores = <<>>
    /\ ret.ai_probability.num > 2000

\* C8 as stated: for a uniform solid-colour image, detect_image reports noise
\* score 0.7 and its indicators contain the noise indicator.
C8_FlatNoise ==
    (Succeeded("detect_image") /\ IsUniform(arg.img.pix)) =>
        /\ Detail("noise_patterns") = Score(Tenths(7))
        /\ \E k \in 1..Len(ret.indicators) : ret.indicators[k] = "unnatural noise"

\* the right half of the picture is the horizontal flip of its left half
IsMirrored(pix) ==
    /\ Width(pix) >= 2
    /\ \A i \in 1..Height(pix) : \A j \in 1..(Width(pix) \div 2) :
          pix[i][j] = pix[i][Width(pix) + 1 - j]

\* C9 as stated: for an image whose right half is the flip of its left half
\* (any width, any content), the symmetry score is 0.7 and the indicators
\* contain the symmetry indicator.
C9_Mirrored ==
    (Succeeded("detect_image") /\ IsMirrored(arg.img.pix)) =>
        /\ Detail("symmetry_analysis") = Score(Tenths(7))
        /\ \E k \in 1..Len(ret.indicators) : ret.indicators[k] = "suspicious symmetry"

HasMakeOrModel(exif) == exif.status = "dict" /\ exif.tags \cap {271, 272} # {}

\* C10 as stated: _analyze_metadata returns 0.8 for an image without embedded
\* metadata and 0.2 whenever the metadata holds a device make or model field,
\* whatever the number of entries.
C10_AsStated ==
    Returned("_analyze_metadata") =>
        /\ arg.status = "none" => ret = Score(Tenths(8))
        /\ HasMakeOrModel(arg) => ret = Score(Tenths(2))

\* C10 (amended): _analyze_metadata returns 0.8 for an image without embedded
\* metadata or with fewer than 3 metadata entries (a make or model field among
\* them or not), and 0.2 when the metadata holds at least 3 entries, a device
\* make or model field among them.
C10_Metadata ==
    Returned("_analyze_metadata") =>
        /\ arg.status = "none" => ret = Score(Tenths(8))
        /\ (arg.status = "dict" /\ Cardinality(arg.tags) < 3) => ret = Score(Tenths(8))
        /\ (HasMakeOrModel(arg) /\ Cardinality(arg.tags) >= 3) => ret = Score(Tenths(2))

\* make, model and orientation: three entries, scored 0.2
C10_Witness ==
    /\ Returned("_analyze_metadata")
    /\ arg = [status |-> "dict", tags |-> {271, 272, 274}]
    /\ ret = Score(Tenths(2))

\* the verdict lines of a formatted text
VerdictLines(text) == {k \in 1..Len(text) : text[k].line = "verdict"}

\* C11: for a Result without `error`, format_result writes exactly one verdict
\* line, the first one: likely AI (red) iff ai_probability >= 70, possibly AI
\* (yellow) iff 40 <= ai_probability < 70, likely human (green) iff
\* ai_probability < 40; for whole percents that is the verdict the /help table lists.
C11_VerdictTiers ==
    (Returned("format_result") /\ ~IsError(arg)) =>
        LET p == arg.ai_probability.num
            v == ret[1]
        IN  /\ arg.ai_probability.den = 100
            /\ VerdictLines(ret) = {1}
            /\ (v.verdict = "likely AI" /\ v.emoji = "red") <=> p >= 7000
            /\ (v.verdict = "possibly AI" /\ v.emoji = "yellow") <=> (4000 <= p /\ p < 7000)
            /\ (v.verdict = "likely human" /\ v.emoji = "green") <=> p < 4000
            /\ \A k \in 1..Len(help_message) :
                 (p % 100 = 0 /\ help_message[k].from * 100 <= p /\ p <= help_message[k].to * 100)
                    => (v.verdict = help_message[k].verdict /\ v.emoji = help_message[k].emoji)

\* a Result of exactly 40 percent is shown as possibly AI
C11_Witness ==
    /\ Returned("format_result")
    /\ ~IsError(arg)
    /\ arg.ai_probability = Hundredths(4000)
    /\ ret[1].verdict = "possibly AI"

\* C12: for a Result with an `error` field, the text format_result returns is
\* the error message alone (no verdict, probability, indicator or detail line),
\* whether the dict holds other fields or not.
C12_ErrorMessageOnly ==
    (Returned("format_result") /\ IsError(arg)) =>
        ret = <<[line |-> "error", text |-> arg.error]>>

\* a dict that holds an error next to a probability and details was formatted
C12_Witness ==
    /\ Returned("format_result")
    /\ IsError(arg)
    /\ "ai_probability" \in DOMAIN arg
    /\ Len(ret) = 1

\* C13 as stated: in every non-error Result of every modality, each entry of
\* details is a float in [0,1], except frames_analyzed, which is an integer >= 0.
C13_DetailsInUnit ==
    \A m \in Methods :
        Succeeded(m) =>
            \A key \in DOMAIN ret.details :
                IF key = "frames_analyzed"
                THEN ~Detail(key).isFloat /\ Detail(key).num >= 0
                ELSE /\ Detail(key).isFloat
                     /\ 0 <= Detail(key).num
                     /\ Detail(key).num <= Detail(key).den

\* what detect_image returns for a file when called once on a new detector and
\* no library call raises
SingleImage(f) ==
    IF ~f.readable THEN [error |-> "image not loaded"]
    ELSE LET l == [metadata_score |-> _analyze_metadata(f.exif),
                   noise_score |-> _analyze_noise_patterns(f.img),
                   symmetry_score |-> _analyze_symmetry(f.img),
                   frequency_score |-> _analyze_frequency(f.img),
                   artifact_score |-> _detect_ai_artifacts(f.img)]
         IN  [type |-> "image",
              ai_probability |-> Hundredths(RoundPercent2(total_score(l), 6000)),
              indicators |-> image_indicators(l),
              details |-> [key \in {"metadata_analysis", "noise_patterns", "symmetry_analysis",
                                    "frequency_analysis", "ai_artifacts"} |->
                             Score(CASE key = "metadata_analysis" -> l.metadata_score
                                     [] key = "noise_patterns" -> l.noise_score
                                     [] key = "symmetry_analysis" -> l.symmetry_score
                                     [] key = "frequency_analysis" -> l.frequency_score
                                     [] key = "ai_artifacts" -> l.artifact_score)]]

\* the same for detect_video: the frames read are 0 .. min(nframes, 30) - 1
SingleVideo(v) ==
    IF ~v.opened THEN [error |-> "video not opened"]
    ELSE LET step == Max(1, v.total_frames \div max_frames)
             read == IF v.nframes < max_frames THEN v.nframes ELSE max_frames
             n == Cardinality({i \in 0..(read - 1) : i % step = 0})
             fs == [k \in 1..n |-> frame_score(FrameAt(v, (k - 1) * step))]
             ts == [k \in 1..(n - 1) |-> _analyze_temporal_consistency(FlowAt(v, k - 1))]
             f == MeanOr(fs, 0)
             t == MeanOr(ts, Tenths(5))
         IN  IF n = 0
             THEN [type |-> "video", ai_probability |-> Hundredths(0), indicators |-> <<>>,
                   details |-> [key \in {"frames_analyzed", "temporal_consistency"} |->
                                  IF key = "frames_analyzed" THEN IntVal(0) ELSE Hundredths(0)]]
             ELSE [type |-> "video", ai_probability |-> Hundredths(video_probability(f, t)),
                   indicators |-> video_indicators(f, t),
                   details |-> [key \in {"frames_analyzed", "temporal_consistency"} |->
                                  IF key = "frames_analyzed" THEN IntVal(n)
                                  ELSE Hundredths(temporal_percent(t))]]

\* the same for detect_audio
SingleAudio(f) ==
    IF ~f.loadable THEN ErrorResult("detect_audio")
    ELSE LET l == [spectral_score |-> _analyze_audio_spectrum(f),
                   pattern_score |-> _analyze_audio_patterns(f),
                   naturalness_score |-> _analyze_voice_naturalness(f)]
         IN  [type |-> "audio",
              ai_probability |-> Hundredths(RoundPercent2(audio_total_score(l), 6000)),
              indicators |-> audio_indicators(l),
              details |-> [key \in {"spectral_analysis", "pattern_analysis", "naturalness"} |->
                             Score(CASE key = "spectral_analysis" -> l.spectral_score
                                     [] key = "pattern_analysis" -> l.pattern_score
                                     [] key = "naturalness" -> l.naturalness_score)]]

SingleCall(method, medium) ==
    CASE method = "detect_image" -> SingleImage(medium)
      [] method = "detect_video" -> SingleVideo(medium)
      [] method = "detect_audio" -> SingleAudio(medium)

IndicatorRules ==
    <<[text |-> "suspicious metadata", key |-> "metadata_analysis", above |-> Tenths(6)],
      [text |-> "unnatural noise", key |-> "noise_patterns", above |-> Tenths(7)],
      [text |-> "suspicious symmetry", key |-> "symmetry_analysis", above |-> Tenths(6)],
      [text |-> "frequency anomalies", key |-> "frequency_analysis", above |-> Tenths(7)],
      [text |-> "AI artifacts", key |-> "ai_artifacts", above |-> Tenths(7)]>>

\* the positions of an indicator text in the indicators of the returned Result
Positions(text) == {k \in 1..Len(ret.indicators) : ret.indicators[k] = text}

\* C15: in every non-error image Result an indicator is present iff its
\* sub-score is strictly greater than its threshold (metadata 0.6, noise 0.7,
\* symmetry 0.6, frequency 0.7, artifacts 0.7), no indicator appears twice,
\* nothing else appears, and the indicators stand in the order metadata, noise,
\* symmetry, frequency, artifacts.
C15_Indicators ==
    Succeeded("detect_image") =>
        /\ \A r \in 1..Len(IndicatorRules) :
             LET rule == IndicatorRules[r]
             IN  /\ (Positions(rule.text) # {}) <=> (Detail(rule.key).num > rule.above)
                 /\ Cardinality(Positions(rule.text)) <= 1
        /\ \A k \in 1..Len(ret.indicators) :
             \E r \in 1..Len(IndicatorRules) : ret.indicators[k] = IndicatorRules[r].text
        /\ \A r, q \in 1..Len(IndicatorRules) :
             \A i \in Positions(IndicatorRules[r].text), j \in Positions(IndicatorRules[q].text) :
                r < q => i < j

\* no metadata and a mirrored picture: two indicators, next to a frequency
\* score that equals its threshold of 0.7 and triggers nothing
C15_Witness ==
    /\ Succeeded("detect_image")
    /\ ret.indicators = <<"suspicious metadata", "suspicious symmetry">>
    /\ Detail("frequency_analysis") = Score(Tenths(7))

\* C16: for every audio file librosa loads, a call that completes returns
\* ai_probability = round(100 * (0.35*spectral + 0.35*pattern + 0.30*naturalness), 2),
\* where spectral is 0.7 iff the mean spectral centroid is outside [1000, 4000],
\* pattern is 0.7 iff the standard deviation of the zero-crossing rate is below
\* 0.01, naturalness is 0.7 iff the mean MFCC variance is below 10, each 0.3
\* otherwise; these are the three scores stored in details.
C16_AudioAggregation ==
    (Succeeded("detect_audio") /\ arg.loadable) =>
        LET level(high) == IF high THEN Tenths(7) ELSE Tenths(3)
            spectral == level(~(1000 <= arg.centroid /\ arg.centroid <= 4000))
            pattern == level(arg.zcr_std < 10)
            naturalness == level(arg.mfcc_var < 10)
        IN  /\ Detail("spectral_analysis") = Score(spectral)
            /\ Detail("pattern_analysis") = Score(pattern)
            /\ Detail("naturalness") = Score(naturalness)
            \* the scores are in sixtieths and the weights in hundredths
            /\ ret.ai_probability =
                 Hundredths(RoundHalfEven(
                    10000 * (35 * spectral + 35 * pattern + 30 * naturalness), 6000))

\* a centroid of exactly 1000 Hz and an MFCC variance of exactly 10 score 0.3,
\* a zero-crossing deviation below 0.01 scores 0.7: 44 percent
C16_Witness ==
    /\ Succeeded("detect_audio")
    /\ arg.centroid = 1000
    /\ arg.zcr_std = 9
    /\ arg.mfcc_var = 10
    /\ ret.ai_probability = Hundredths(4400)

\* C17: _detect_ai_artifacts returns (sum of the contributions of the
\* triggered checks) / (number of checks evaluated): Laplacian variance > 1000
\* contributes 0.8, an edge density outside [0.05, 0.3] contributes 0.6 and, for
\* colour input only, a mean saturation > 180 contributes 0.7; the divisor is 3
\* for colour and 2 for grayscale input, however many checks triggered.
C17_ArtifactScore ==
    Returned("_detect_ai_artifacts") =>
        LET n == Height(arg.pix) * Width(arg.pix)
            lap == Flatten(Laplacian(Gray(arg)))
            colour == arg.channels = 3
            variance == IF VarTimesN2(lap) > 1000 * n * n THEN Tenths(8) ELSE 0
            density == IF 5 * n <= 100 * arg.edges /\ 10 * arg.edges <= 3 * n
                       THEN 0 ELSE Tenths(6)
            saturation == IF colour /\ SumSeq(Saturation(arg)) > 180 * n
                          THEN Tenths(7) ELSE 0
            checks == IF colour THEN 3 ELSE 2
        IN  /\ ret.isFloat /\ ret.den = 60
            /\ ret.num * checks = variance + density + saturation

\* a grayscale array on which only the Laplacian check triggers: 0.8 / 2
C17_Witness ==
    /\ Returned("_detect_ai_artifacts")
    /\ arg.channels = 1
    /\ arg.edges = 1
    /\ ret = Score(Tenths(4))

C19_TempFileRemoved ==
    (handler.pc = "done" /\ handler.tmp # NoPath) => handler.tmp \notin files

=============================================================================
